---- MODULE Spec2Model ----
(***************************************************************************)
(* The authenticated request pipeline of the Yeti API client               *)
(* (src/yeti/api.py, class YetiApi): do_request, auth_api_key and          *)
(* refresh_auth, executed as Python executes them, one call-stack frame    *)
(* per activation.  The server is free: every transport call is answered   *)
(* by any response of Responses.                                           *)
(*                                                                         *)
(* Spec is the pipeline under the calls do_request, auth_api_key and       *)
(* refresh_auth.  WrapperSpec is the find and search operations and the   *)
(* archive upload, which run on top of the same pipeline.                  *)
(*                                                                         *)
(* Python values are modelled as strings (None is the string None below,   *)
(* dictionaries and byte strings are written as their literals), so that   *)
(* truthiness tests (`if json_data and body`, `if not self._apikey`) can   *)
(* be computed as Python computes them.                                    *)
(***************************************************************************)
EXTENDS Integers, Sequences, FiniteSets, TLC

VARIABLES
    client,          \* self.client: index in sessions of the current Session
    sessions,        \* the Session objects created so far (heap, by identity)
    _apikey,         \* self._apikey
    _auth_function,  \* self._auth_function
    _tls_cert,       \* self._tls_cert
    stack,           \* the Python call stack, innermost activation last
    ret,             \* the value or exception travelling from a finished
                     \* activation to its caller
    log,             \* history of the running library call: transport calls,
                     \* refresh_auth invocations, session installations
    call             \* the library call the user made last, and the client
                     \* state it started from

vars == <<client, sessions, _apikey, _auth_function, _tls_cert, stack, ret, log, call>>

----------------------------------------------------------------------------
(* Bounds of the model *)

\* Largest retry budget a caller passes to do_request explicitly.
MaxRetries == 2

\* The interpreter's recursion limit (sys.getrecursionlimit(), 1000 by
\* default), scaled down: deep enough for a do_request with the largest
\* explicit budget to be retried to exhaustion with a complete
\* re-authentication before each retry, and for a request made by a wrapper
\* with the default budget to be retried to exhaustion on a client that has
\* no auth method recorded.
RecursionLimit == MaxRetries + 4

----------------------------------------------------------------------------
(* Program constants *)

DefaultRetries == 3

API_TOKEN_ENDPOINT == "/api/v2/auth/api-token"

url_root == "http://yeti"

----------------------------------------------------------------------------
(* Python values *)

None == "None"
EmptyDict == "{}"
EmptyBytes == "b''"
EmptyList == "[]"

\* bool(v) is False
Falsy == {None, "", EmptyDict, EmptyBytes, EmptyList}

Truthy(v) == v \notin Falsy

\* The credentials a caller may pass to auth_api_key.
ApiKeys == {"key1", "key2"}

\* The access tokens the server may issue.
Tokens == {"tok1", "tok2"}

\* {"x-yeti-apikey": key}
ApiKeyHeaders(key) == "{'x-yeti-apikey': '" \o key \o "'}"

\* b'{"access_token": "<token>"}'
TokenBody(token) == "{'access_token': '" \o token \o "'}"

\* Response bodies of a 2xx answer: a token, an empty token, a JSON object
\* without access_token, and a body that is not JSON.
Contents == {TokenBody(t) : t \in Tokens \cup {""}} \cup {EmptyDict, "<html>"}

\* Statuses of the answers that are errors, other than 401, and their bodies.
ErrStatuses == {400, 404}

ErrTexts == {"error_message", "Not found"}

Responses ==
    [status : {200}, text : Contents]
        \cup [status : ErrStatuses, text : ErrTexts]
        \cup [status : {401}, text : {"Unauthorized"}]

\* requests.Response.raise_for_status raises HTTPError for 4xx and 5xx.
RaisesForStatus(resp) == resp.status >= 400 /\ resp.status < 600

\* str(e) of the HTTPError raised by raise_for_status (the reason phrase of
\* the status line is not modelled).
HTTPErrorStr(resp, url) ==
    ToString(resp.status) \o " Client Error: Unauthorized for url: " \o url

----------------------------------------------------------------------------
(* Outcomes of an activation *)

NoRet == [kind |-> "none", type |-> None, status_code |-> 0, value |-> None]

Return(v) == [kind |-> "return", type |-> None, status_code |-> 0, value |-> v]

Raise(type, status_code, message) ==
    [kind |-> "raise", type |-> type, status_code |-> status_code, value |-> message]

Raised(r, type) == r.kind = "raise" /\ r.type = type

----------------------------------------------------------------------------
(* Frames of the call stack *)

Frame(fn, method, url, json_data, body, headers, retries, params, apikey) ==
    [fn |-> fn, pc |-> "start", method |-> method, url |-> url,
     json_data |-> json_data, body |-> body, headers |-> headers,
     retries |-> retries, params |-> params, apikey |-> apikey,
     base |-> Len(log)]

DoRequestFrame(method, url, json_data, body, headers, retries, params) ==
    Frame("do_request", method, url, json_data, body, headers, retries, params, None)

AuthApiKeyFrame(apikey) ==
    Frame("auth_api_key", None, None, None, None, None, 0, None, apikey)

RefreshAuthFrame ==
    Frame("refresh_auth", None, None, None, None, None, 0, None, None)

Top == stack[Len(stack)]

Pop(s) == SubSeq(s, 1, Len(s) - 1)

SetTop(s, f) == [s EXCEPT ![Len(s)] = f]

At(fn, pc) == stack # <<>> /\ Top.fn = fn /\ Top.pc = pc

\* The activation on top of the stack ends with outcome r.
Finish(r) ==
    /\ stack' = Pop(stack)
    /\ ret' = r

\* The activation on top of the stack, continued as frame f, calls callee.
\* Past the recursion limit the call raises RecursionError in the caller,
\* which no code of the client catches.
PyCall(f, callee) ==
    IF Len(stack) < RecursionLimit
    THEN /\ stack' = Append(SetTop(stack, f), callee)
         /\ ret' = NoRet
    ELSE Finish(Raise("RecursionError", 0, "maximum recursion depth exceeded"))

----------------------------------------------------------------------------
(* History *)

Event(ev, f, resp, url) ==
    [ev |-> ev, method |-> f.method, url |-> url,
     json |-> IF Truthy(f.json_data) THEN f.json_data ELSE None,
     body |-> IF Truthy(f.body) THEN f.body ELSE None,
     headers |-> IF Truthy(f.headers) THEN f.headers ELSE None,
     session |-> client, authorization |-> sessions[client].authorization,
     status |-> resp.status, text |-> resp.text, retries |-> f.retries,
     depth |-> Len(stack)]

NoResp == [status |-> 0, text |-> None]

Sends(l) == SelectSeq(l, LAMBDA e : e.ev = "send")

Refreshes(l) == SelectSeq(l, LAMBDA e : e.ev = "refresh_auth")

Installs(l) == SelectSeq(l, LAMBDA e : e.ev = "install")

----------------------------------------------------------------------------
(* YetiApi.__init__ *)

NewSession == [authorization |-> None, verify |-> "True"]

WithVerify(s, cert) == IF Truthy(cert) THEN [s EXCEPT !.verify = cert] ELSE s

Idle == [op |-> "none", frame |-> RefreshAuthFrame,
         apikey |-> None, auth_function |-> "", session |-> NewSession]

Init ==
    /\ _tls_cert \in {None, "cert.pem"}
    /\ sessions = <<WithVerify(NewSession, _tls_cert)>>
    /\ client = 1
    /\ _auth_function = ""
    /\ _apikey = None
    /\ stack = <<>>
    /\ ret = NoRet
    /\ log = <<>>
    /\ call = [Idle EXCEPT !.session = sessions[1]]

----------------------------------------------------------------------------
(* Calls made by the user of the library.  A call starts when no call is  *)
(* running.  Session identities are renumbered at that moment (the        *)
(* current Session becomes object 1, the unreachable ones are dropped)    *)
(* and the history starts afresh.                                         *)

Methods == {"GET", "POST", "PATCH", "DELETE"}

TargetUrl == url_root \o "/api/v2/indicators/"

JsonValues == {None, EmptyDict, "{'name': 'test'}"}

BodyValues == {None, EmptyBytes, "b'zip'"}

HeaderValues == {None, "{'Content-Type': 'multipart/form-data'}"}

ParamValues == {None, "name=test&type=regex"}

\* The argument lists the model passes to do_request: a JSON POST and every
\* argument list that differs from it in the method, in the payload (the
\* pair of json_data and body), in the headers or in the params, plus the
\* shapes of a lookup (GET with params) and of an upload (POST of a binary
\* body with headers).
RequestArgs ==
    LET All == [method : Methods, payload : JsonValues \X BodyValues,
                headers : HeaderValues, params : ParamValues]
        Base == [method |-> "POST", payload |-> <<"{'name': 'test'}", None>>,
                 headers |-> None, params |-> None]
        Diff(a) == Cardinality({k \in DOMAIN Base : a[k] # Base[k]})
    IN  {a \in All : Diff(a) <= 1}
            \cup {a \in All : /\ a.method = "GET"
                               /\ a.payload = <<None, None>>
                               /\ a.params # None}
            \cup {a \in All : /\ a.method = "POST"
                               /\ a.payload = <<None, "b'zip'">>
                               /\ a.headers # None
                               /\ a.params = None}

Begin(op, f) ==
    /\ stack = <<>>
    /\ stack' = <<[f EXCEPT !.base = 0]>>
    /\ ret' = NoRet
    /\ log' = <<>>
    /\ sessions' = <<sessions[client]>>
    /\ client' = 1
    /\ call' = [op |-> op, frame |-> [f EXCEPT !.base = 0], apikey |-> _apikey,
                auth_function |-> _auth_function, session |-> sessions[client]]
    /\ UNCHANGED <<_apikey, _auth_function, _tls_cert>>

CallDoRequest ==
    \E a \in RequestArgs, retries \in 0..MaxRetries :
        Begin("do_request",
              DoRequestFrame(a.method, TargetUrl, a.payload[1], a.payload[2], a.headers,
                             retries, a.params))

CallAuthApiKey ==
    \E apikey \in ApiKeys \cup {None, ""} :
        Begin("auth_api_key", AuthApiKeyFrame(apikey))

CallRefreshAuth ==
    Begin("refresh_auth", RefreshAuthFrame)

----------------------------------------------------------------------------
(* The find and search operations: what they request and what the server  *)
(* may answer                                                              *)

FindOps == {"find_indicator", "find_entity", "find_observable", "find_dfiq"}

SearchOps == {"search_indicators", "search_entities", "search_observables",
              "search_dfiq", "search_tags"}

\* The path of the url each operation requests.
Endpoint(fn) ==
    CASE fn = "find_indicator" -> "/api/v2/indicators/"
      [] fn = "find_entity" -> "/api/v2/entities/"
      [] fn = "find_observable" -> "/api/v2/observables/"
      [] fn = "find_dfiq" -> "/api/v2/dfiq/"
      [] fn = "search_indicators" -> "/api/v2/indicators/search"
      [] fn = "search_entities" -> "/api/v2/entities/search"
      [] fn = "search_observables" -> "/api/v2/observables/search"
      [] fn = "search_dfiq" -> "/api/v2/dfiq/search"
      [] fn = "search_tags" -> "/api/v2/tags/search"

\* The key of the answer under which each search operation reads its result.
ResultKey(fn) ==
    CASE fn = "search_indicators" -> "indicators"
      [] fn = "search_entities" -> "entities"
      [] fn = "search_observables" -> "observables"
      [] fn = "search_dfiq" -> "dfiq"
      [] fn = "search_tags" -> "tags"

\* b'{"<key>": []}': the answer to a search, with an empty result list.
SearchBody(key) == "{'" \o key \o "': []}"

\* The answers the server may give to a request for url: any of Responses
\* and, to a search, a result list under the key of the endpoint.
ResponsesTo(url) ==
    Responses \cup
        [status : {200},
         text : {SearchBody(ResultKey(fn)) :
                     fn \in {g \in SearchOps : url_root \o Endpoint(g) = url}}]

----------------------------------------------------------------------------
(* YetiApi.do_request *)

\* Line 120: `if json_data and body`
BothGiven(json_data, body) == Truthy(json_data) /\ Truthy(body)

\* Faulty variant of SupportedMethod: no method is refused.
SupportedMethod_Any(method) == TRUE

\* Lines 135-142: the methods with a branch of their own
SupportedMethod(method) == method \in {"POST", "PATCH", "GET"}

\* urllib.parse.urlencode(params): the parameters are modelled already
\* encoded.
urlencode(params) == params

\* Lines 131-132: the url the request is sent to
RequestUrl(url, params) ==
    IF Truthy(params) THEN url \o "?" \o urlencode(params) ELSE url

\* Faulty variant of IsUnauthorized: every error status is taken for an
\* expired credential.
IsUnauthorized_AnyError(resp) == resp.status >= 400

\* Line 145: `e.response.status_code == 401`
IsUnauthorized(resp) == resp.status = 401

\* Faulty variant of RetriesExhausted: the last retry is never made.
RetriesExhausted_Early(retries) == retries <= 1

\* Line 146: `retries == 0`
RetriesExhausted(retries) == retries = 0

\* Line 147: errors.YetiAuthError(str(e))
AuthError(resp, url) == Raise("YetiAuthError", 0, HTTPErrorStr(resp, url))

\* Line 153: errors.YetiApiError(e.response.status_code, e.response.text)
ApiError(resp) == Raise("YetiApiError", resp.status, resp.text)

\* Faulty variant of RetryFrame: params is passed on to the retry, which
\* appends the query string to the url again.
RetryFrame_ParamsAgain(f) ==
    [DoRequestFrame(f.method, f.url, f.json_data, f.body, f.headers, f.retries - 1,
                    f.params)
        EXCEPT !.base = f.base]

\* Lines 149-151: self.do_request(method, url, json_data, body, headers,
\* retries - 1), url being the url rebuilt at line 132 and params left out.
RetryFrame(f) ==
    [DoRequestFrame(f.method, f.url, f.json_data, f.body, f.headers, f.retries - 1, None)
        EXCEPT !.base = f.base]

\* Lines 129-130 and 135-140: a non-empty body is handed to the session as the
\* keyword argument `body`.  self.client is a requests.Session (line 78, line
\* 176); its post, patch and get forward their keyword arguments to
\* Session.request, which has no parameter of that name, so the call raises
\* TypeError before anything is sent.  The except clause of line 144 catches
\* HTTPError only.
UnexpectedKeyword(body) == Truthy(body)

\* Lines 120-155, up to the call of refresh_auth: the argument check, the
\* transport call on the current session, and the classification of its answer.
do_request ==
    /\ At("do_request", "start")
    /\ LET f == Top
           url == RequestUrl(f.url, f.params)
       IN  IF BothGiven(f.json_data, f.body)
           THEN /\ Finish(Raise("ValueError", 0,
                                "You must provide either json or body, not both."))
                /\ UNCHANGED log
           ELSE IF ~SupportedMethod(f.method)
           THEN /\ Finish(Raise("ValueError", 0, "Unsupported method: " \o f.method))
                /\ UNCHANGED log
           ELSE IF UnexpectedKeyword(f.body)
           THEN /\ Finish(Raise("TypeError", 0,
                                "request() got an unexpected keyword argument 'body'"))
                /\ UNCHANGED log
           ELSE \E resp \in ResponsesTo(url) :
                /\ log' = Append(log, Event("send", f, resp, url))
                /\ IF ~RaisesForStatus(resp)
                   THEN Finish(Return(resp.text))
                   ELSE IF ~IsUnauthorized(resp)
                   THEN Finish(ApiError(resp))
                   ELSE IF RetriesExhausted(f.retries)
                   THEN Finish(AuthError(resp, url))
                   ELSE PyCall([f EXCEPT !.pc = "refresh_auth", !.url = url],
                               RefreshAuthFrame)
    /\ UNCHANGED <<client, sessions, _apikey, _auth_function, _tls_cert, call>>

\* Faulty variant of do_request_retry: a failure of refresh_auth is
\* swallowed and the request is retried all the same.
do_request_retry_IgnoreFailure ==
    /\ At("do_request", "refresh_auth")
    /\ ret.kind # "none"
    /\ PyCall([Top EXCEPT !.pc = "retry"], RetryFrame(Top))
    /\ UNCHANGED <<client, sessions, _apikey, _auth_function, _tls_cert, log, call>>

\* Lines 148-151: refresh_auth has come back; an exception of it leaves
\* do_request, otherwise do_request calls itself.
do_request_retry ==
    /\ At("do_request", "refresh_auth")
    /\ ret.kind # "none"
    /\ IF ret.kind = "raise"
       THEN Finish(ret)
       ELSE PyCall([Top EXCEPT !.pc = "retry"], RetryFrame(Top))
    /\ UNCHANGED <<client, sessions, _apikey, _auth_function, _tls_cert, log, call>>

\* Faulty variant of do_request_return: the retry is called without
\* `return`, so its value is dropped.
do_request_return_NoReturn ==
    /\ At("do_request", "retry")
    /\ ret.kind # "none"
    /\ Finish(IF ret.kind = "raise" THEN ret ELSE Return(None))
    /\ UNCHANGED <<client, sessions, _apikey, _auth_function, _tls_cert, log, call>>

\* Line 149: `return self.do_request(...)`: the outcome of the retry is the
\* outcome of this activation.
do_request_return ==
    /\ At("do_request", "retry")
    /\ ret.kind # "none"
    /\ Finish(ret)
    /\ UNCHANGED <<client, sessions, _apikey, _auth_function, _tls_cert, log, call>>

----------------------------------------------------------------------------
(* YetiApi.refresh_auth *)

\* Faulty variant of HasAuthFunction: the auth function is called whether or
\* not one is recorded.
HasAuthFunction_Always(auth_function) == TRUE

\* Line 185: `if self._auth_function`
HasAuthFunction(auth_function) == Truthy(auth_function)

\* Lines 184-188, up to the call of the recorded auth function.
refresh_auth ==
    /\ At("refresh_auth", "start")
    /\ log' = Append(log, Event("refresh_auth", Top, NoResp, None))
    /\ IF HasAuthFunction(_auth_function)
       THEN PyCall([Top EXCEPT !.pc = "auth_function"], AuthApiKeyFrame(None))
       ELSE Finish(Return(None))
    /\ UNCHANGED <<client, sessions, _apikey, _auth_function, _tls_cert, call>>

\* Line 186: the auth function has come back.
refresh_auth_return ==
    /\ At("refresh_auth", "auth_function")
    /\ ret.kind # "none"
    /\ Finish(IF ret.kind = "raise" THEN ret ELSE Return(None))
    /\ UNCHANGED <<client, sessions, _apikey, _auth_function, _tls_cert, log, call>>

----------------------------------------------------------------------------
(* YetiApi.auth_api_key *)

\* Faulty variant of StoredKey: `self._apikey = apikey` without the test of
\* line 160, so a call without a key forgets the stored one.
StoredKey_Argument(apikey, stored) == apikey

\* Lines 160-161: the key stored in self._apikey after them
StoredKey(apikey, stored) == IF apikey # None THEN apikey ELSE stored

\* Faulty variant of MissingKey: `if self._apikey is None`, an empty key passes.
MissingKey_OnlyNone(key) == key = None

\* Line 162: `if not self._apikey`
MissingKey(key) == ~Truthy(key)

\* Faulty variant of TokenRequest: the token request is made without retry
\* budget.
TokenRequest_NoRetries(key) ==
    DoRequestFrame("POST", url_root \o API_TOKEN_ENDPOINT, None, None,
                   ApiKeyHeaders(key), 0, None)

\* Faulty variant of TokenRequest: the key is sent in the JSON body as well.
TokenRequest_KeyInJson(key) ==
    DoRequestFrame("POST", url_root \o API_TOKEN_ENDPOINT, ApiKeyHeaders(key), None,
                   ApiKeyHeaders(key), DefaultRetries, None)

\* Lines 165-169: the token request
TokenRequest(key) ==
    DoRequestFrame("POST", url_root \o API_TOKEN_ENDPOINT, None, None,
                   ApiKeyHeaders(key), DefaultRetries, None)

\* json.loads(response) succeeds
IsJson(content) == content # "<html>"

\* Line 171: json.loads(response).get("access_token")
AccessToken(content) ==
    IF \E t \in Tokens \cup {""} : content = TokenBody(t)
    THEN CHOOSE t \in Tokens \cup {""} : content = TokenBody(t)
    ELSE None

\* Faulty variant of MissingToken: `if access_token is None`, an empty token
\* passes.
MissingToken_OnlyNone(access_token) == access_token = None

\* Line 172: `if not access_token`
MissingToken(access_token) == ~Truthy(access_token)

\* Faulty variant of Authorization: the token is installed without the
\* Bearer scheme.
Authorization_NoScheme(access_token) == access_token

\* Line 179: the authorization header of the new session
Authorization(access_token) == "Bearer " \o access_token

\* Faulty variant of AuthdSession: the new session is left with the default
\* verify setting.
AuthdSession_DefaultVerify(access_token, cert) ==
    [NewSession EXCEPT !.authorization = Authorization(access_token)]

\* Lines 176-179: the new session
AuthdSession(access_token, cert) ==
    [WithVerify(NewSession, cert) EXCEPT !.authorization = Authorization(access_token)]

\* Line 182: the auth function recorded by a successful authentication
RecordedAuthFunction == "auth_api_key"

\* Faulty variant of auth_api_key: the auth method is recorded on entry,
\* before the authentication has succeeded.
auth_api_key_RecordsEarly ==
    /\ At("auth_api_key", "start")
    /\ LET key == StoredKey(Top.apikey, _apikey)
       IN  /\ _apikey' = key
           /\ _auth_function' = RecordedAuthFunction
           /\ IF MissingKey(key)
              THEN Finish(Raise("ValueError", 0, "No API key provided."))
              ELSE PyCall([Top EXCEPT !.pc = "do_request"], TokenRequest(key))
    /\ UNCHANGED <<client, sessions, _tls_cert, log, call>>

\* Lines 160-169: store the key if one is given, fail without a key,
\* otherwise request a token.
auth_api_key ==
    /\ At("auth_api_key", "start")
    /\ LET key == StoredKey(Top.apikey, _apikey)
       IN  /\ _apikey' = key
           /\ IF MissingKey(key)
              THEN Finish(Raise("ValueError", 0, "No API key provided."))
              ELSE PyCall([Top EXCEPT !.pc = "do_request"], TokenRequest(key))
    /\ UNCHANGED <<client, sessions, _auth_function, _tls_cert, log, call>>

\* Faulty variant of auth_api_key_response: the token is written into the
\* headers of the current session (self.client.headers.update(...)) instead
\* of a new session replacing it.
auth_api_key_response_InPlace ==
    /\ At("auth_api_key", "do_request")
    /\ ret.kind # "none"
    /\ IF ret.kind = "raise"
       THEN /\ Finish(ret)
            /\ UNCHANGED <<client, sessions, _auth_function, log>>
       ELSE IF ~IsJson(ret.value)
       THEN /\ Finish(Raise("JSONDecodeError", 0, "Expecting value"))
            /\ UNCHANGED <<client, sessions, _auth_function, log>>
       ELSE IF MissingToken(AccessToken(ret.value))
       THEN /\ Finish(Raise("RuntimeError", 0,
                            "Failed to find access token in the response: " \o ret.value))
            /\ UNCHANGED <<client, sessions, _auth_function, log>>
       ELSE /\ sessions' = [sessions EXCEPT ![client].authorization =
                                Authorization(AccessToken(ret.value))]
            /\ client' = client
            /\ _auth_function' = RecordedAuthFunction
            /\ log' = Append(log, [Event("install", Top, NoResp, None)
                                     EXCEPT !.authorization =
                                         Authorization(AccessToken(ret.value))])
            /\ Finish(Return(None))
    /\ UNCHANGED <<_apikey, _tls_cert, call>>

\* Lines 165-182: the token request has come back.
auth_api_key_response ==
    /\ At("auth_api_key", "do_request")
    /\ ret.kind # "none"
    /\ IF ret.kind = "raise"
       THEN /\ Finish(ret)
            /\ UNCHANGED <<client, sessions, _auth_function, log>>
       ELSE IF ~IsJson(ret.value)
       THEN /\ Finish(Raise("JSONDecodeError", 0, "Expecting value"))
            /\ UNCHANGED <<client, sessions, _auth_function, log>>
       ELSE IF MissingToken(AccessToken(ret.value))
       THEN /\ Finish(Raise("RuntimeError", 0,
                            "Failed to find access token in the response: " \o ret.value))
            /\ UNCHANGED <<client, sessions, _auth_function, log>>
       ELSE LET authd_session == AuthdSession(AccessToken(ret.value), _tls_cert)
            IN  /\ sessions' = Append(sessions, authd_session)
                /\ client' = Len(sessions) + 1
                /\ _auth_function' = RecordedAuthFunction
                /\ log' = Append(log, [Event("install", Top, NoResp, None)
                                         EXCEPT !.session = Len(sessions) + 1,
                                                !.authorization =
                                                    authd_session.authorization])
                /\ Finish(Return(None))
    /\ UNCHANGED <<_apikey, _tls_cert, call>>

----------------------------------------------------------------------------
(* Python dictionaries, rendered as their literals *)

\* The values a list-typed argument takes; every other argument is a string.
ListValues == {EmptyList, "['tag1']"}

\* repr(v)
Repr(v) == IF v \in ListValues \cup {None} THEN v ELSE "'" \o v \o "'"

\* `if v: d[key] = v`: the entry added to a dictionary for the value v
Entry(key, v) == IF Truthy(v) THEN <<<<key, Repr(v)>>>> ELSE <<>>

RECURSIVE Items(_)
Items(entries) ==
    IF entries = <<>>
    THEN ""
    ELSE "'" \o entries[1][1] \o "': " \o entries[1][2]
             \o (IF Len(entries) > 1 THEN ", " ELSE "")
             \o Items(Tail(entries))

\* The dictionary holding the entries (pairs of a key and a rendered value),
\* in insertion order.
Dict(entries) == "{" \o Items(entries) \o "}"

\* any(values): some value is true
any(values) == \E i \in 1..Len(values) : Truthy(values[i])

\* json.loads(content) of a body that is JSON: the decoded object, which is
\* not the byte string it was decoded from.
json_loads(content) == "json.loads(" \o content \o ")"

----------------------------------------------------------------------------
(* YetiApi.find_indicator, find_entity, find_observable, find_dfiq *)

\* The activation of a find, search or upload operation; args holds its
\* arguments.
WrapperFrame(fn, args) ==
    [fn |-> fn, pc |-> "start", method |-> None, url |-> None,
     json_data |-> None, body |-> None, headers |-> None,
     retries |-> 0, params |-> None, apikey |-> None,
     base |-> Len(log), args |-> args]

\* params={"name": name, "type": type}, as urlencode renders it
NameTypeParams(name, type) == "name=" \o name \o "&type=" \o type

\* params={"value": value, "type": type}, as urlencode renders it
ValueTypeParams(value, type) == "value=" \o value \o "&type=" \o type

\* The call of do_request made by a find operation: a GET of the endpoint
\* with the lookup parameters and the default retry budget.
Find(fn, params) ==
    /\ At(fn, "start")
    /\ PyCall([Top EXCEPT !.pc = "do_request"],
              DoRequestFrame("GET", url_root \o Endpoint(fn), None, None, None,
                             DefaultRetries, params))
    /\ UNCHANGED <<client, sessions, _apikey, _auth_function, _tls_cert, log, call>>

\* Faulty variant of FindResponse: the YetiApiError of a 404 is raised like
\* any other.
FindResponse_NoTranslation(fn) ==
    /\ At(fn, "do_request")
    /\ ret.kind # "none"
    /\ IF ret.kind = "raise"
       THEN Finish(ret)
       ELSE IF ~IsJson(ret.value)
       THEN Finish(Raise("JSONDecodeError", 0, "Expecting value"))
       ELSE Finish(Return(json_loads(ret.value)))
    /\ UNCHANGED <<client, sessions, _apikey, _auth_function, _tls_cert, log, call>>

\* do_request has come back to a find operation: a YetiApiError with status
\* 404 becomes the result None, any other exception is raised again, and a
\* body is decoded.
FindResponse(fn) ==
    /\ At(fn, "do_request")
    /\ ret.kind # "none"
    /\ IF Raised(ret, "YetiApiError") /\ ret.status_code = 404
       THEN Finish(Return(None))
       ELSE IF ret.kind = "raise"
       THEN Finish(ret)
       ELSE IF ~IsJson(ret.value)
       THEN Finish(Raise("JSONDecodeError", 0, "Expecting value"))
       ELSE Finish(Return(json_loads(ret.value)))
    /\ UNCHANGED <<client, sessions, _apikey, _auth_function, _tls_cert, log, call>>

find_indicator ==
    Find("find_indicator", NameTypeParams(Top.args.name, Top.args.type))

find_indicator_response == FindResponse("find_indicator")

find_entity ==
    Find("find_entity", NameTypeParams(Top.args.name, Top.args.type))

find_entity_response == FindResponse("find_entity")

find_observable ==
    Find("find_observable", ValueTypeParams(Top.args.value, Top.args.type))

find_observable_response == FindResponse("find_observable")

find_dfiq ==
    Find("find_dfiq", NameTypeParams(Top.args.name, Top.args.dfiq_type))

find_dfiq_response == FindResponse("find_dfiq")

----------------------------------------------------------------------------
(* YetiApi.search_indicators, search_entities, search_observables,         *)
(* search_dfiq, search_tags                                                *)

DefaultCount == 100

DefaultPage == 0

\* {"query": query, "count": count, "page": page}
SearchParams(query, count, page) ==
    Dict(<<<<"query", Dict(query)>>, <<"count", ToString(count)>>,
           <<"page", ToString(page)>>>>)

\* A search operation: the usage error when its filter check fails,
\* otherwise the call of do_request, a POST of json_data to the endpoint
\* with the default retry budget.
Search(fn, no_filter, message, json_data) ==
    /\ At(fn, "start")
    /\ IF no_filter
       THEN Finish(Raise("ValueError", 0, message))
       ELSE PyCall([Top EXCEPT !.pc = "do_request"],
                   DoRequestFrame("POST", url_root \o Endpoint(fn), json_data, None,
                                  None, DefaultRetries, None))
    /\ UNCHANGED <<client, sessions, _apikey, _auth_function, _tls_cert, log, call>>

\* do_request has come back to a search operation:
\* json.loads(response)[<key>].
SearchResponse(fn) ==
    /\ At(fn, "do_request")
    /\ ret.kind # "none"
    /\ IF ret.kind = "raise"
       THEN Finish(ret)
       ELSE IF ~IsJson(ret.value)
       THEN Finish(Raise("JSONDecodeError", 0, "Expecting value"))
       ELSE IF ret.value # SearchBody(ResultKey(fn))
       THEN Finish(Raise("KeyError", 0, ResultKey(fn)))
       ELSE Finish(Return(EmptyList))
    /\ UNCHANGED <<client, sessions, _apikey, _auth_function, _tls_cert, log, call>>

\* Lines 239-261
search_indicators ==
    LET a == Top.args
    IN  Search("search_indicators",
               ~any(<<a.name, a.indicator_type, a.pattern, a.description, a.tags>>),
               "You must provide one of name, indicator_type, pattern, description, or tags.",
               SearchParams(Entry("name", a.name) \o Entry("pattern", a.pattern)
                                \o Entry("description", a.description)
                                \o Entry("type", a.indicator_type)
                                \o Entry("tags", a.tags),
                            a.count, a.page))

search_indicators_response == SearchResponse("search_indicators")

\* Lines 328-347
search_entities ==
    LET a == Top.args
    IN  Search("search_entities",
               ~any(<<a.name, a.entity_type, a.description>>),
               "You must provide one of name, type, or description.",
               SearchParams(Entry("name", a.name) \o Entry("type", a.entity_type)
                                \o Entry("description", a.description)
                                \o Entry("tags", a.tags),
                            a.count, a.page))

search_entities_response == SearchResponse("search_entities")

\* Lines 451-459: no filter check
search_observables ==
    LET a == Top.args
    IN  Search("search_observables", FALSE, None,
               SearchParams(<<<<"value", Repr(a.value)>>>> \o Entry("tags", a.tags),
                            a.count, a.page))

search_observables_response == SearchResponse("search_observables")

\* Lines 624-644: no filter check; the type is sent beside the query
search_dfiq ==
    LET a == Top.args
    IN  Search("search_dfiq", FALSE, None,
               Dict(<<<<"query", Dict(<<<<"name", Repr(a.name)>>>>
                                          \o Entry("dfiq_yaml", a.dfiq_yaml)
                                          \o Entry("dfiq_tags", a.dfiq_tags))>>,
                      <<"count", ToString(a.count)>>,
                      <<"page", ToString(a.page)>>,
                      <<"filter_aliases", "[['dfiq_tags', 'list'], ['dfiq_id', 'text']]">>>>
                        \o Entry("type", a.dfiq_type)))

search_dfiq_response == SearchResponse("search_dfiq")

\* Lines 841-845: no filter check, no query
search_tags ==
    LET a == Top.args
    IN  Search("search_tags", FALSE, None,
               Dict(<<<<"name", Repr(a.name)>>, <<"count", ToString(a.count)>>,
                      <<"page", ToString(a.page)>>>>))

search_tags_response == SearchResponse("search_tags")

----------------------------------------------------------------------------
(* YetiApi.upload_dfiq_archive *)

\* Line 736: uuid4().hex, the boundary a MultipartEncoder draws when it is
\* constructed: 32 lowercase hexadecimal digits.
Boundaries == {"0123456789abcdef0123456789abcdef", "fedcba9876543210fedcba9876543210"}

\* Line 739: encoded_data.content_type
ContentType(boundary) == "multipart/form-data; boundary=" \o boundary

\* Line 739: headers = {"Content-Type": encoded_data.content_type}
ContentTypeHeaders(boundary) == "{'Content-Type': '" \o ContentType(boundary) \o "'}"

\* Lines 736-738 and 744: encoded_data.to_string(), the one part "archive"
\* with its file name and type between the boundary lines.  It is not empty
\* even for an empty archive.
to_string(boundary, data) ==
    "b'--" \o boundary \o " archive archive.zip application/zip " \o data
           \o " --" \o boundary \o "--'"

\* Lines 734-745: the archive is read and encoded under a boundary drawn for
\* this call, and do_request is called with the encoding as body.
upload_dfiq_archive ==
    /\ At("upload_dfiq_archive", "start")
    /\ \E boundary \in Boundaries :
           PyCall([Top EXCEPT !.pc = "do_request"],
                  DoRequestFrame("POST", url_root \o "/api/v2/dfiq/from_archive", None,
                                 to_string(boundary, Top.args.archive),
                                 ContentTypeHeaders(boundary), DefaultRetries, None))
    /\ UNCHANGED <<client, sessions, _apikey, _auth_function, _tls_cert, log, call>>

\* Lines 740-746: an exception of do_request is raised again; a body is
\* decoded.
upload_dfiq_archive_response ==
    /\ At("upload_dfiq_archive", "do_request")
    /\ ret.kind # "none"
    /\ IF ret.kind = "raise"
       THEN Finish(ret)
       ELSE IF ~IsJson(ret.value)
       THEN Finish(Raise("JSONDecodeError", 0, "Expecting value"))
       ELSE Finish(Return(json_loads(ret.value)))
    /\ UNCHANGED <<client, sessions, _apikey, _auth_function, _tls_cert, log, call>>

----------------------------------------------------------------------------

Next ==
    \/ CallDoRequest
    \/ CallAuthApiKey
    \/ CallRefreshAuth
    \/ do_request
    \/ do_request_retry
    \/ do_request_return
    \/ refresh_auth
    \/ refresh_auth_return
    \/ auth_api_key
    \/ auth_api_key_response

Spec == Init /\ [][Next]_vars

----------------------------------------------------------------------------
(* The find, search and upload operations, called on a client that has    *)
(* not authenticated and on one that has                                   *)

\* The values of an optional string argument, of a required one, and of an
\* optional list argument.
StrValues == {None, "", "test"}

RequiredStrValues == {"", "test"}

TagValues == {None} \cup ListValues

\* The count and page arguments: the defaults, and values of the caller's.
CountValues == {DefaultCount, 10}

PageValues == {DefaultPage, 2}

\* The arguments the model passes to a search operation with the filter
\* parameters filters, of which those of required are strings that cannot be
\* left out: with the default count and page, every way of giving no
\* non-empty filter, each filter alone and all of them; with a count and a
\* page of the caller's, all of them.
Passed(a, filters, required) ==
    LET All == \A k \in filters : Truthy(a[k])
        Blank(k) == IF k \in required THEN a[k] = "" ELSE a[k] = None
    IN  IF a.count = DefaultCount /\ a.page = DefaultPage
        THEN \/ \A k \in filters : ~Truthy(a[k])
             \/ All
             \/ \E k \in filters :
                    /\ Truthy(a[k])
                    /\ \A j \in filters \ {k} : Blank(j)
        ELSE All /\ a.count # DefaultCount /\ a.page # DefaultPage

SearchIndicatorsArgs ==
    {a \in [name : StrValues, indicator_type : StrValues, pattern : StrValues,
            description : StrValues, tags : TagValues,
            count : CountValues, page : PageValues] :
        Passed(a, {"name", "indicator_type", "pattern", "description", "tags"}, {})}

SearchEntitiesArgs ==
    {a \in [name : StrValues, entity_type : StrValues, description : StrValues,
            tags : TagValues, count : CountValues, page : PageValues] :
        Passed(a, {"name", "entity_type", "description", "tags"}, {})}

SearchObservablesArgs ==
    {a \in [value : RequiredStrValues, tags : TagValues,
            count : CountValues, page : PageValues] :
        Passed(a, {"value", "tags"}, {"value"})}

SearchDfiqArgs ==
    {a \in [name : RequiredStrValues, dfiq_type : StrValues, dfiq_yaml : StrValues,
            dfiq_tags : TagValues, count : CountValues, page : PageValues] :
        Passed(a, {"name", "dfiq_type", "dfiq_yaml", "dfiq_tags"}, {"name"})}

SearchTagsArgs ==
    {a \in [name : RequiredStrValues, count : CountValues, page : PageValues] :
        Passed(a, {"name"}, {"name"})}

SearchArgs(fn) ==
    CASE fn = "search_indicators" -> SearchIndicatorsArgs
      [] fn = "search_entities" -> SearchEntitiesArgs
      [] fn = "search_observables" -> SearchObservablesArgs
      [] fn = "search_dfiq" -> SearchDfiqArgs
      [] fn = "search_tags" -> SearchTagsArgs

\* The arguments the model passes to the find operations.
FindNameTypeArgs == [name : {"test"}, type : {"regex"}]

FindObservableArgs == [value : {"test"}, type : {"regex"}]

FindDfiqArgs == [name : {"test"}, dfiq_type : {"regex"}]

FindArgs(fn) ==
    CASE fn = "find_observable" -> FindObservableArgs
      [] fn = "find_dfiq" -> FindDfiqArgs
      [] OTHER -> FindNameTypeArgs

CallFind ==
    \E fn \in FindOps : \E args \in FindArgs(fn) :
        Begin(fn, WrapperFrame(fn, args))

CallSearch ==
    \E fn \in SearchOps : \E args \in SearchArgs(fn) :
        Begin(fn, WrapperFrame(fn, args))

\* The content of the archive file: an empty file, and a zip archive.
UploadArgs == [archive : {EmptyBytes, "b'PK'"}]

CallUpload ==
    \E args \in UploadArgs :
        Begin("upload_dfiq_archive", WrapperFrame("upload_dfiq_archive", args))

\* A client as constructed, or as a successful auth_api_key("key1") leaves it.
WrapperInit ==
    /\ _tls_cert \in {None, "cert.pem"}
    /\ \E authenticated \in BOOLEAN :
           IF authenticated
           THEN /\ sessions = <<AuthdSession("tok1", _tls_cert)>>
                /\ _auth_function = RecordedAuthFunction
                /\ _apikey = "key1"
           ELSE /\ sessions = <<WithVerify(NewSession, _tls_cert)>>
                /\ _auth_function = ""
                /\ _apikey = None
    /\ client = 1
    /\ stack = <<>>
    /\ ret = NoRet
    /\ log = <<>>
    /\ call = [Idle EXCEPT !.session = sessions[1], !.apikey = _apikey,
                           !.auth_function = _auth_function]

WrapperNext ==
    \/ CallFind
    \/ CallSearch
    \/ CallUpload
    \/ find_indicator
    \/ find_indicator_response
    \/ find_entity
    \/ find_entity_response
    \/ find_observable
    \/ find_observable_response
    \/ find_dfiq
    \/ find_dfiq_response
    \/ search_indicators
    \/ search_indicators_response
    \/ search_entities
    \/ search_entities_response
    \/ search_observables
    \/ search_observables_response
    \/ search_dfiq
    \/ search_dfiq_response
    \/ search_tags
    \/ search_tags_response
    \/ upload_dfiq_archive
    \/ upload_dfiq_archive_response
    \/ do_request
    \/ do_request_retry
    \/ do_request_return
    \/ refresh_auth
    \/ refresh_auth_return
    \/ auth_api_key
    \/ auth_api_key_response

WrapperSpec == WrapperInit /\ [][WrapperNext]_vars

----------------------------------------------------------------------------
(* Properties *)

\* The library call the user made has ended.
Done == stack = <<>> /\ call.op # "none"

Ended(op) == Done /\ call.op = op

\* Every transport call of history l was answered 401.
AllUnauthorized(l) == \A i \in 1..Len(l) : l[i].status = 401

\* A transport call answered with an error status other than 401.
ErrorAnswer(e) == e.ev = "send" /\ RaisesForStatus(e) /\ e.status # 401

\* C1: every do_request call ends after a bounded number of transport calls:
\* it never runs into the recursion limit, and on a client that has
\* authenticated before and holds a key, a request whose transport calls are
\* all answered 401 (the token requests included) ends with YetiAuthError.
C1_BoundedRecursion ==
    Ended("do_request") =>
        /\ ~Raised(ret, "RecursionError")
        /\ (/\ call.auth_function # ""
            /\ Truthy(call.apikey)
            /\ Sends(log) # <<>>
            /\ AllUnauthorized(Sends(log))) => Raised(ret, "YetiAuthError")

\* C2: when every transport call is answered 401, do_request(retries=r)
\* raises YetiAuthError after exactly r+1 transport calls, in every
\* authentication state of the client.
C2_ExactlyRetriesPlusOne ==
    (/\ Ended("do_request")
     /\ Sends(log) # <<>>
     /\ AllUnauthorized(Sends(log)))
        => /\ Raised(ret, "YetiAuthError")
           /\ Len(Sends(log)) = call.frame.retries + 1

\* The first k transport calls were answered 401 and call k+1 was answered 2xx.
RetriedThenOk(l, k) ==
    /\ Len(l) >= k + 1
    /\ AllUnauthorized(SubSeq(l, 1, k))
    /\ ~RaisesForStatus(l[k + 1])

\* C3 (as claimed): for every k <= r, when the transport answers 401 on the
\* first k calls and 2xx on call k+1, do_request(retries=r) returns the body
\* of that 2xx answer and refresh_auth has been invoked exactly k times.
C3_RetryThenSuccess ==
    Ended("do_request") =>
        \A k \in 0..call.frame.retries :
            RetriedThenOk(Sends(log), k)
                => /\ ret = Return(Sends(log)[k + 1].text)
                   /\ Len(Refreshes(log)) = k

\* C3 (amended): the same on a client that has no auth method recorded, where
\* refresh_auth makes no transport call of its own.
C3_RetryThenSuccessUnauthenticated ==
    (Ended("do_request") /\ call.auth_function = "") =>
        \A k \in 0..call.frame.retries :
            RetriedThenOk(Sends(log), k)
                => /\ ret = Return(Sends(log)[k + 1].text)
                   /\ Len(Sends(log)) = k + 1
                   /\ Len(Refreshes(log)) = k

C3_Witness ==
    /\ Ended("do_request")
    /\ call.auth_function = ""
    /\ call.frame.retries = 2
    /\ RetriedThenOk(Sends(log), 2)
    /\ ret.kind = "return"
    /\ Len(Refreshes(log)) = 2

\* C4: a transport call answered with an error status other than 401 is the
\* last thing the running call does (no further attempt, no refresh_auth),
\* and do_request raises YetiApiError with that status and the text of the
\* answer; a do_request whose first answer is such an error has made exactly
\* one attempt.
C4_ApiErrorNotRetried ==
    /\ \A i \in 1..Len(log) :
           ErrorAnswer(log[i])
               => /\ i = Len(log)
                  /\ ret = Raise("YetiApiError", log[i].status, log[i].text)
    /\ (Ended("do_request") /\ log # <<>> /\ ErrorAnswer(log[1]))
           => /\ Len(Sends(log)) = 1
              /\ Refreshes(log) = <<>>
              /\ Raised(ret, "YetiApiError")
              /\ ret.status_code = log[1].status
              /\ ret.value = log[1].text

C4_Witness ==
    /\ Ended("do_request")
    /\ call.auth_function # ""
    /\ call.frame.retries > 0
    /\ Len(log) = 1
    /\ log[1].status = 404
    /\ ret = Raise("YetiApiError", 404, "Not found")

\* C5: every do_request call returns the response bytes or raises a usage
\* error (before any transport call), a YetiApiError or a YetiAuthError; no
\* other error escapes.
C5_FourOutcomes ==
    Ended("do_request") =>
        \/ ret.kind = "return"
        \/ Raised(ret, "ValueError") /\ Sends(log) = <<>>
        \/ Raised(ret, "YetiApiError")
        \/ Raised(ret, "YetiAuthError")

\* C6: a do_request or auth_api_key call that raises ValueError has made no
\* transport call.
C6_UsageErrorBeforeAnyTransport ==
    (/\ Done
     /\ call.op \in {"do_request", "auth_api_key"}
     /\ Raised(ret, "ValueError")) => Sends(log) = <<>>

\* C7: a do_request call given both a JSON body and a binary body, empty or
\* not, raises a usage error and makes no transport call.
C7_BothBodiesRejected ==
    (/\ Ended("do_request")
     /\ call.frame.json_data # None
     /\ call.frame.body # None)
        => /\ Raised(ret, "ValueError")
           /\ Sends(log) = <<>>

\* The token request was answered 2xx with a JSON body holding a non-empty
\* access_token.
TokenAnswer(e) ==
    /\ e.ev = "send"
    /\ e.url = url_root \o API_TOKEN_ENDPOINT
    /\ ~RaisesForStatus(e)
    /\ \E t \in Tokens : e.text = TokenBody(t)

\* C8: when the token request is answered 2xx with access_token T,
\* auth_api_key installs a new session (an object that did not exist before)
\* whose authorization header is "Bearer T", makes it the current session and
\* records "auth_api_key" as the auth method; an auth_api_key call that
\* returns has done so.
C8_BearerSessionInstalled ==
    /\ \A i \in 1..Len(log) :
           TokenAnswer(log[i]) =>
               /\ i = Len(log) => stack # <<>>
               /\ i < Len(log) =>
                      /\ log[i + 1].ev = "install"
                      /\ \A t \in Tokens :
                             log[i].text = TokenBody(t)
                                 => log[i + 1].authorization = "Bearer " \o t
                      /\ log[i + 1].session > log[i].session
    /\ (log # <<>> /\ log[Len(log)].ev = "install") =>
           /\ client = log[Len(log)].session
           /\ client = Len(sessions)
           /\ sessions[client].authorization = log[Len(log)].authorization
           /\ _auth_function = "auth_api_key"
    /\ (Ended("auth_api_key") /\ ret.kind = "return") =>
           /\ log[Len(log)].ev = "install"
           /\ TokenAnswer(log[Len(log) - 1])

C8_Witness ==
    /\ Ended("auth_api_key")
    /\ call.frame.apikey = "key1"
    /\ call.auth_function = ""
    /\ ret.kind = "return"
    /\ Len(log) = 2
    /\ log[1].text = TokenBody("tok2")
    /\ sessions[client].authorization = "Bearer tok2"
    /\ client = 2
    /\ _auth_function = "auth_api_key"

\* C9: an auth_api_key call that fails because the token answer lacks a
\* non-empty access_token leaves the session that was current before the
\* call current, and the recorded auth method unchanged.
C9_SessionKeptOnMissingToken ==
    (Ended("auth_api_key") /\ Raised(ret, "RuntimeError"))
        => /\ client = 1
           /\ sessions[client] = call.session
           /\ Installs(log) = <<>>
           /\ _auth_function = call.auth_function

\* No credential is available to the auth_api_key call the user made.
NoCredential ==
    \/ call.frame.apikey = ""
    \/ call.frame.apikey = None /\ call.apikey \in {None, ""}

\* C10: auth_api_key called with no credential available raises the usage
\* error "No API key provided." before any transport call and leaves the
\* session and the recorded auth method unchanged.
C10_NoApiKey ==
    (Ended("auth_api_key") /\ NoCredential)
        => /\ ret = Raise("ValueError", 0, "No API key provided.")
           /\ log = <<>>
           /\ client = 1
           /\ sessions = <<call.session>>
           /\ _auth_function = call.auth_function

C10_Witness ==
    /\ Ended("auth_api_key")
    /\ call.frame.apikey = ""
    /\ call.apikey = "key1"
    /\ call.auth_function = "auth_api_key"
    /\ Raised(ret, "ValueError")
    /\ sessions[client].authorization = "Bearer tok1"

\* A token request.
TokenSend(e) == e.ev = "send" /\ e.url = url_root \o API_TOKEN_ENDPOINT

\* The first step of the call the user made has been taken.
Entered == stack = <<>> \/ Len(stack) > 1 \/ Top.pc # "start"

\* C11: auth_api_key(key) stores the key given and sends it in every token
\* request of the call; auth_api_key() and the re-authentications made by
\* refresh_auth and do_request send the credential that was stored when the
\* call began and leave it stored; no token request carries an empty key.
C11_KeySentAndStored ==
    (call.op # "none" /\ Entered) =>
        LET given == IF call.op = "auth_api_key" THEN call.frame.apikey ELSE None
            key == IF given # None THEN given ELSE call.apikey
        IN  /\ _apikey = key
            /\ \A i \in 1..Len(log) :
                   TokenSend(log[i])
                       => /\ log[i].headers = "{'x-yeti-apikey': '" \o key \o "'}"
                          /\ key \notin {None, ""}

C11_Witness ==
    /\ Ended("auth_api_key")
    /\ call.frame.apikey = None
    /\ call.apikey = "key2"
    /\ call.auth_function = ""
    /\ Len(log) = 2
    /\ TokenSend(log[1])
    /\ log[1].headers = "{'x-yeti-apikey': 'key2'}"
    /\ ret.kind = "return"
    /\ _apikey = "key2"

\* C12: refresh_auth on a client with no auth method recorded (no
\* authentication has succeeded) makes no transport call, installs nothing,
\* raises nothing, returns None, and leaves the session, the stored
\* credential and the recorded auth method as they were.
C12_RefreshWithoutAuthIsNoOp ==
    (call.op = "refresh_auth" /\ call.auth_function = "") =>
        /\ Sends(log) = <<>>
        /\ Installs(log) = <<>>
        /\ client = 1
        /\ sessions = <<call.session>>
        /\ _apikey = call.apikey
        /\ _auth_function = ""
        /\ ret.kind # "raise"
        /\ Done => ret = Return(None)

C12_Witness ==
    /\ Ended("refresh_auth")
    /\ call.auth_function = ""
    /\ call.apikey = "key1"
    /\ Len(log) = 1
    /\ log[1].ev = "refresh_auth"
    /\ ret = Return(None)
    /\ _apikey = "key1"

\* C13: on a client whose auth method is recorded (auth_api_key has
\* succeeded before), refresh_auth issues a token request carrying a
\* non-empty key, and when that request is answered with a token T the
\* session current afterwards is a new one carrying "Bearer T".
C13_RefreshReauthenticates ==
    (Ended("refresh_auth") /\ call.auth_function # "") =>
        /\ Sends(log) # <<>>
        /\ TokenSend(Sends(log)[1])
        /\ \E k \in ApiKeys : Sends(log)[1].headers = "{'x-yeti-apikey': '" \o k \o "'}"
        /\ TokenAnswer(Sends(log)[1])
               => /\ ret = Return(None)
                  /\ client = 2
                  /\ \A t \in Tokens :
                         Sends(log)[1].text = TokenBody(t)
                             => sessions[client].authorization = "Bearer " \o t

\* Event i of the history is the last session installation before event j.
LastInstallBefore(i, j) ==
    /\ i < j
    /\ log[i].ev = "install"
    /\ \A m \in (i + 1)..(j - 1) : log[m].ev # "install"

\* A transport call to the url of the request the user made.
TargetSend(e) == e.ev = "send" /\ ~TokenSend(e)

\* C14: every transport call made after a session installation is sent on
\* the session installed last, with its bearer token, and that session is
\* not one that existed before the installation; within a do_request on an
\* authenticated client, an attempt of the request is followed by another
\* only after it was answered 401 and, after that, refresh_auth was invoked
\* and a new session installed.
C14_RetryOnNewSession ==
    /\ \A i, j \in 1..Len(log) :
           (LastInstallBefore(i, j) /\ log[j].ev = "send")
               => /\ log[j].session = log[i].session
                  /\ log[j].authorization = log[i].authorization
                  /\ \A m \in 1..(i - 1) : log[m].session < log[j].session
    /\ (call.op = "do_request" /\ call.auth_function # "") =>
           \A i, j \in 1..Len(log) :
               (i < j /\ TargetSend(log[i]) /\ TargetSend(log[j]))
                   => /\ log[i].status = 401
                      /\ \E r, n \in (i + 1)..(j - 1) :
                             /\ r < n
                             /\ log[r].ev = "refresh_auth"
                             /\ log[n].ev = "install"

C14_Witness ==
    /\ Ended("do_request")
    /\ call.auth_function # ""
    /\ Len(log) = 5
    /\ TargetSend(log[1]) /\ log[1].status = 401 /\ log[1].session = 1
    /\ log[2].ev = "refresh_auth"
    /\ TokenSend(log[3]) /\ log[3].text = TokenBody("tok2")
    /\ log[4].ev = "install" /\ log[4].session = 2
    /\ TargetSend(log[5]) /\ log[5].session = 2
    /\ log[5].authorization = "Bearer tok2"
    /\ log[1].authorization = "Bearer tok1"
    /\ ret.kind = "return"

\* C15: while a call runs, no step changes a session object that exists: the
\* sessions are kept as they are, at most one new session is created in a
\* step, and the current session changes only by becoming that new session,
\* which carries a bearer token and the TLS setting of the client from the
\* moment it is current.
C15_SessionReplacedNotMutated ==
    [][stack # <<>> =>
          /\ Len(sessions') \in {Len(sessions), Len(sessions) + 1}
          /\ \A i \in 1..Len(sessions) : sessions'[i] = sessions[i]
          /\ client' # client =>
                 /\ Len(sessions') = Len(sessions) + 1
                 /\ client' = Len(sessions')
                 /\ \E t \in Tokens : sessions'[client'].authorization = "Bearer " \o t
                 /\ sessions'[client'].verify = sessions[client].verify
          /\ client' = client => Len(sessions') = Len(sessions)]_vars

C15_Witness ==
    /\ Ended("refresh_auth")
    /\ Len(sessions) = 2
    /\ client = 2
    /\ sessions[1] = call.session
    /\ sessions[1].authorization = "Bearer tok1"
    /\ sessions[2].authorization = "Bearer tok2"
    /\ sessions[2].verify = "cert.pem"

\* C16: the recorded auth method is empty after construction; it changes
\* only from empty to "auth_api_key", in the step in which an auth_api_key
\* activation installs the new session and returns; no other step, of
\* refresh_auth, of do_request or of a failing authentication, changes it.
C16_AuthFunctionLifecycle ==
    /\ _auth_function = ""
    /\ [][_auth_function' # _auth_function =>
              /\ _auth_function = ""
              /\ _auth_function' = "auth_api_key"
              /\ At("auth_api_key", "do_request")
              /\ ret' = Return(None)
              /\ client' # client
              /\ Len(Installs(log')) = Len(Installs(log)) + 1]_vars

C16_Witness ==
    /\ Ended("auth_api_key")
    /\ call.auth_function = "auth_api_key"
    /\ call.frame.apikey = "key2"
    /\ Raised(ret, "RuntimeError")
    /\ _auth_function = "auth_api_key"

\* C17: a do_request call with a method other than GET, POST or PATCH raises
\* ValueError, makes no transport call, invokes no refresh_auth, makes no
\* retry, and leaves the session, the stored credential and the recorded
\* auth method unchanged.
C17_UnsupportedMethod ==
    (call.op = "do_request" /\ call.frame.method \notin {"GET", "POST", "PATCH"}) =>
        /\ log = <<>>
        /\ Len(stack) <= 1
        /\ client = 1
        /\ sessions = <<call.session>>
        /\ _apikey = call.apikey
        /\ _auth_function = call.auth_function
        /\ Done => Raised(ret, "ValueError")

C17_Witness ==
    /\ Ended("do_request")
    /\ call.frame.method = "DELETE"
    /\ call.frame.retries = 2
    /\ call.auth_function = "auth_api_key"
    /\ ret = Raise("ValueError", 0, "Unsupported method: DELETE")
    /\ log = <<>>

\* The transport calls of history l other than token requests: the attempts
\* of the request the running operation makes.
TargetSends(l) == SelectSeq(l, LAMBDA e : TargetSend(e))

\* The answer to the last attempt of the request.
LastAnswer == TargetSends(log)[Len(TargetSends(log))]

\* A find operation has ended after at least one attempt of its request.
FindEnded == Done /\ call.op \in FindOps /\ TargetSends(log) # <<>>

EmptyFilter(v) == v \in {None, "", "[]"}

\* The filter arguments of the search operation the user called.
Filters ==
    LET a == call.frame.args
    IN  CASE call.op = "search_indicators" ->
                 {a.name, a.indicator_type, a.pattern, a.description, a.tags}
          [] call.op = "search_entities" ->
                 {a.name, a.entity_type, a.description, a.tags}
          [] call.op = "search_observables" -> {a.value, a.tags}
          [] call.op = "search_dfiq" -> {a.name, a.dfiq_type, a.dfiq_yaml, a.dfiq_tags}
          [] call.op = "search_tags" -> {a.name}

\* C19: a search operation called with every filter argument empty makes no
\* transport call and raises ValueError.
C19_NoFilterRejected ==
    (call.op \in SearchOps /\ \A v \in Filters : EmptyFilter(v)) =>
        /\ Sends(log) = <<>>
        /\ Done => Raised(ret, "ValueError")

\* C20: search_indicators and search_entities, called with at least one
\* non-empty filter argument, issue the search request (a POST to the search
\* endpoint) and raise no usage error.
C20_FilterAccepted ==
    (/\ Done
     /\ call.op \in {"search_indicators", "search_entities"}
     /\ \E v \in Filters : ~EmptyFilter(v)) =>
        /\ Sends(log) # <<>>
        /\ Sends(log)[1].method = "POST"
        /\ Sends(log)[1].url \in {"http://yeti/api/v2/indicators/search",
                                  "http://yeti/api/v2/entities/search"}
        /\ ~Raised(ret, "ValueError")

\* The entry of a query for a filter argument: none when the argument is
\* empty, otherwise the key with the value as given.
Supplied(key, v) ==
    IF EmptyFilter(v)
    THEN <<>>
    ELSE <<"'" \o key \o "': " \o (IF v = "['tag1']" THEN v ELSE "'" \o v \o "'")>>

\* The entry of a query for a required string argument.
Required(key, v) == <<"'" \o key \o "': '" \o v \o "'">>

RECURSIVE Joined(_)
Joined(s) ==
    IF s = <<>> THEN ""
    ELSE IF Len(s) = 1 THEN s[1]
    ELSE s[1] \o ", " \o Joined(Tail(s))

\* The query a search operation is to send for the arguments of the call the
\* user made: a key for each optional filter that was supplied non-empty
\* (keys in the order the operation adds them; the order is of no
\* consequence to the server).
ClaimedQuery ==
    LET a == call.frame.args
    IN  "{" \o Joined(
            CASE call.op = "search_indicators" ->
                     Supplied("name", a.name) \o Supplied("pattern", a.pattern)
                         \o Supplied("description", a.description)
                         \o Supplied("type", a.indicator_type)
                         \o Supplied("tags", a.tags)
              [] call.op = "search_entities" ->
                     Supplied("name", a.name) \o Supplied("type", a.entity_type)
                         \o Supplied("description", a.description)
                         \o Supplied("tags", a.tags)
              [] call.op = "search_observables" ->
                     Required("value", a.value) \o Supplied("tags", a.tags)
              [] call.op = "search_dfiq" ->
                     Required("name", a.name) \o Supplied("dfiq_yaml", a.dfiq_yaml)
                         \o Supplied("dfiq_tags", a.dfiq_tags)
                         \o Supplied("type", a.dfiq_type)) \o "}"

\* The JSON body holding that query, the count and the page (and, for
\* search_dfiq, the filter aliases).
ClaimedJson ==
    "{'query': " \o ClaimedQuery
        \o ", 'count': " \o ToString(call.frame.args.count)
        \o ", 'page': " \o ToString(call.frame.args.page)
        \o (IF call.op = "search_dfiq"
            THEN ", 'filter_aliases': [['dfiq_tags', 'list'], ['dfiq_id', 'text']]"
            ELSE "")
        \o "}"

\* C21: every request of search_indicators, search_entities,
\* search_observables and search_dfiq (retries included) is a POST whose
\* JSON body holds a query with a key for an optional filter exactly when
\* the caller supplied it non-empty, with the value as given, and the count
\* and page as given.
C21_QueryOfSuppliedFilters ==
    call.op \in {"search_indicators", "search_entities", "search_observables",
                 "search_dfiq"} =>
        \A i \in 1..Len(log) :
            TargetSend(log[i]) => log[i].method = "POST" /\ log[i].json = ClaimedJson


\* C22: every upload_dfiq_archive call makes a transport call, and each of
\* its transport calls for the archive is a POST to
\* <root>/api/v2/dfiq/from_archive with no JSON body, with the encoding of the
\* archive as body, and with the header "Content-Type: multipart/form-data;
\* boundary=<b>" where b, 32 lowercase hexadecimal digits, is the boundary of
\* that encoding.
C22_UploadPostsArchive ==
    Ended("upload_dfiq_archive") =>
        /\ TargetSends(log) # <<>>
        /\ \A i \in 1..Len(log) :
               TargetSend(log[i]) =>
                   /\ log[i].method = "POST"
                   /\ log[i].url = url_root \o "/api/v2/dfiq/from_archive"
                   /\ log[i].json = None
                   /\ \E b \in Boundaries :
                          /\ log[i].body = to_string(b, call.frame.args.archive)
                          /\ log[i].headers = ContentTypeHeaders(b)


\* The last transport call of history l.
LastSend(l) == Sends(l)[Len(Sends(l))]

\* C23: YetiAuthError is raised only by do_request, in the step in which a
\* transport call is answered 401 with retry budget 0, and its message is
\* the message of that failure; while the exception is on its way to the
\* caller, that transport call is the last one made.
C23_AuthErrorOnlyAtExhausted401 ==
    [][Raised(ret', "YetiAuthError") =>
           /\ Sends(log') # <<>>
           /\ LastSend(log').status = 401
           /\ LastSend(log').retries = 0
           /\ ret'.value = HTTPErrorStr(LastSend(log'), LastSend(log').url)
           /\ ~Raised(ret, "YetiAuthError") =>
                  /\ At("do_request", "start")
                  /\ Len(log') = Len(log) + 1
                  /\ log'[Len(log')].ev = "send"]_vars

\* A do_request called with retry budget has ended with YetiAuthError.
C23_Witness ==
    /\ Ended("do_request")
    /\ Raised(ret, "YetiAuthError")
    /\ call.frame.retries > 0
    /\ Len(TargetSends(log)) > 1


\* The string sub occurs in the string s.
Contains(s, sub) ==
    \E i \in 1..(Len(s) - Len(sub) + 1) : SubSeq(s, i, i + Len(sub) - 1) = sub

\* C24: no transport call carries an API key in its url, in its JSON body,
\* in its binary body or in the authorization header of its session, and a
\* transport call that carries one in its headers is a POST to
\* <root>/api/v2/auth/api-token with no body, whose headers are the one
\* header x-yeti-apikey.
C24_KeyOnlyInTokenHeader ==
    \A i \in 1..Len(log) : \A k \in ApiKeys :
        log[i].ev = "send" =>
            /\ ~Contains(log[i].url, k)
            /\ ~Contains(log[i].json, k)
            /\ ~Contains(log[i].body, k)
            /\ ~Contains(log[i].authorization, k)
            /\ Contains(log[i].headers, k) =>
                   /\ TokenSend(log[i])
                   /\ log[i].method = "POST"
                   /\ log[i].headers = ApiKeyHeaders(k)
                   /\ log[i].json = None
                   /\ log[i].body = None

\* A request was answered 401, the key was sent for a new token, and the
\* request was tried again.
C24_Witness ==
    /\ call.op = "do_request"
    /\ \E i, j \in 1..Len(log) :
           /\ i < j
           /\ TokenSend(log[i])
           /\ Contains(log[i].headers, _apikey)
           /\ TargetSend(log[j])


\* Transport call j is the retry of transport call i: it is made one frame
\* above it, by the do_request that made call i, after whatever refresh_auth
\* sent in between.
IsRetryOf(i, j) ==
    /\ i < j
    /\ log[i].ev = "send"
    /\ log[j].ev = "send"
    /\ log[j].depth = log[i].depth + 1
    /\ \A m \in (i + 1)..(j - 1) : log[m].ev = "send" => log[m].depth > log[i].depth + 1

\* C25: the retry of a transport call has its method, its JSON body, its
\* binary body, its headers and its url, and a retry budget one less; the
\* url of the first attempt of a do_request is the url given with the query
\* string of params appended, so that every attempt carries it once.
C25_RetrySameRequest ==
    /\ \A i, j \in 1..Len(log) :
           IsRetryOf(i, j) =>
               /\ log[j].method = log[i].method
               /\ log[j].json = log[i].json
               /\ log[j].body = log[i].body
               /\ log[j].headers = log[i].headers
               /\ log[j].url = log[i].url
               /\ log[j].retries = log[i].retries - 1
    /\ call.op = "do_request" =>
           \A i \in 1..Len(log) :
               TargetSend(log[i]) =>
                   /\ log[i].url = RequestUrl(call.frame.url, call.frame.params)
                   /\ log[i].retries <= call.frame.retries

\* A request with params was retried twice.
C25_Witness ==
    /\ call.op = "do_request"
    /\ Truthy(call.frame.params)
    /\ \E i, j, k \in 1..Len(log) :
           /\ IsRetryOf(i, j)
           /\ IsRetryOf(j, k)
           /\ TargetSend(log[i])


\* A token request answered with a non-empty access token.
TokenGranted(e) ==
    TokenSend(e) /\ ~RaisesForStatus(e) /\ Truthy(AccessToken(e.text))

\* C26: the current session has an authorization header exactly if an auth
\* method is recorded; the header is "Bearer t" for a non-empty token t; a
\* session is installed only right after a token request was answered with a
\* non-empty access token, and with that token; such an answer is followed by
\* the installation at once; and the current session is the one installed
\* last.
C26_BearerOfLastExchange ==
    /\ sessions[client].authorization # None <=> _auth_function # ""
    /\ sessions[client].authorization # None =>
           \E t \in Tokens : sessions[client].authorization = "Bearer " \o t
    /\ \A i \in 1..Len(log) :
           /\ log[i].ev = "install" =>
                  /\ i > 1
                  /\ TokenGranted(log[i - 1])
                  /\ log[i].authorization = "Bearer " \o AccessToken(log[i - 1].text)
           /\ (TokenGranted(log[i]) /\ i < Len(log)) => log[i + 1].ev = "install"
    /\ Installs(log) # <<>> =>
           LET last == Installs(log)[Len(Installs(log))]
           IN  /\ client = last.session
               /\ sessions[client].authorization = last.authorization

\* A call has ended after two token exchanges that granted different
\* tokens.
C26_Witness ==
    /\ Done
    /\ Len(Installs(log)) > 1
    /\ Installs(log)[1].authorization # sessions[client].authorization


\* The token requests of history l.
TokenSends(l) == SelectSeq(l, LAMBDA e : TokenSend(e))

\* The do_request the user called on an authenticated client has ended, the
\* request was attempted, every attempt was answered 401, and every token
\* request was answered with a non-empty access token.
RejectedWhileTokensGranted ==
    /\ Ended("do_request")
    /\ call.auth_function # ""
    /\ call.session.authorization # None
    /\ TargetSends(log) # <<>>
    /\ \A i \in 1..Len(log) :
           /\ TargetSend(log[i]) => log[i].status = 401
           /\ TokenSend(log[i]) => TokenGranted(log[i])

\* C27: on an authenticated client, a do_request(retries=r) whose attempts
\* are all answered 401 while every token request is granted a token raises
\* YetiAuthError after r+1 attempts and r token requests, an attempt and a
\* token request alternating, and leaves as current session the one holding
\* the token granted last.
C27_AlternatingRetries ==
    RejectedWhileTokensGranted =>
        LET r == call.frame.retries
            sent == Sends(log)
        IN  /\ Raised(ret, "YetiAuthError")
            /\ Len(TargetSends(log)) = r + 1
            /\ Len(TokenSends(log)) = r
            /\ \A k \in 1..Len(sent) :
                   IF k % 2 = 1 THEN TargetSend(sent[k]) ELSE TokenSend(sent[k])
            /\ IF r = 0
               THEN sessions[client] = call.session
               ELSE sessions[client].authorization =
                        "Bearer " \o AccessToken(sent[Len(sent) - 1].text)


\* auth_api_key(key) with a non-empty key, called on a client that has no
\* auth method recorded and no authorization header, has ended, and every
\* transport call was answered 401.
FirstAuthRejected ==
    /\ Ended("auth_api_key")
    /\ Truthy(call.frame.apikey)
    /\ call.auth_function = ""
    /\ call.session.authorization = None
    /\ AllUnauthorized(Sends(log))

\* C28: auth_api_key(key) on a client that has never authenticated, every
\* token request being answered 401, makes DefaultRetries + 1 = 4 token
\* requests with the budgets 3, 2, 1, 0 and nothing else, raises
\* YetiAuthError, and leaves the session it found, without authorization
\* header, and no auth method recorded.
C28_TokenRequestRetried ==
    FirstAuthRejected =>
        /\ Raised(ret, "YetiAuthError")
        /\ Len(Sends(log)) = DefaultRetries + 1
        /\ \A k \in 1..Len(Sends(log)) :
               /\ TokenSend(Sends(log)[k])
               /\ Sends(log)[k].retries = DefaultRetries + 1 - k
               /\ Sends(log)[k].headers = ApiKeyHeaders(call.frame.apikey)
        /\ Installs(log) = <<>>
        /\ sessions[client] = call.session
        /\ sessions[client].authorization = None
        /\ _auth_function = ""

\* The call has ended after its last token request, made with budget 0.
C28_Witness ==
    /\ FirstAuthRejected
    /\ Sends(log) # <<>>
    /\ LastSend(log).retries = 0
    /\ Len(Refreshes(log)) = DefaultRetries


\* C29: an auth_api_key call that ends with an exception leaves the client
\* as it found it: the stored credential, the current session and the
\* recorded auth method are those from before the call.
C29_FailedAuthChangesNothing ==
    (Ended("auth_api_key") /\ ret.kind = "raise") =>
        /\ _apikey = call.apikey
        /\ sessions[client] = call.session
        /\ _auth_function = call.auth_function


\* C30: on a client constructed with a TLS certificate, the session of
\* construction, every session installed by auth_api_key and so the current
\* session have the certificate as verify setting, and every transport call
\* is made on such a session; without a certificate they keep the default.
C30_VerifyIsCertificate ==
    LET verify == IF Truthy(_tls_cert) THEN _tls_cert ELSE NewSession.verify
    IN  /\ sessions[client].verify = verify
        /\ \A s \in 1..Len(sessions) : sessions[s].verify = verify
        /\ \A i \in 1..Len(log) :
               log[i].ev \in {"send", "install"} =>
                   sessions[log[i].session].verify = verify

\* On a client constructed with a certificate, a request was answered 401,
\* a new session was installed and the request was tried again on it.
C30_Witness ==
    /\ _tls_cert = "cert.pem"
    /\ call.op = "do_request"
    /\ sessions[client].verify = "cert.pem"
    /\ \E i, j \in 1..Len(log) :
           /\ i < j
           /\ log[i].ev = "install"
           /\ TargetSend(log[j])
           /\ log[j].session = log[i].session
           /\ log[j].session # 1

====
